---- MODULE Spec2Model ----
(***************************************************************************)
(* Model of heat/engine/resources/ceilometer/alarm.py: the two alarm       *)
(* resources (CeilometerAlarm, CombinationAlarm), their property-to-API    *)
(* payload transforms and their lifecycle handlers.                        *)
(*                                                                         *)
(* Python values are tagged records so that None, strings, booleans, lists *)
(* and dicts can live in one mapping and be told apart the way the code    *)
(* tells them apart ("is not None", truthiness).  A Python dict is a TLA+  *)
(* function whose domain is its key set.  Matching-metadata keys are       *)
(* strings whose structure matters (startswith), so they are sequences of  *)
(* tokens; the tokens form a prefix code, hence prefix-of-tokens coincides *)
(* with str.startswith on the concatenated text.                           *)
(***************************************************************************)
EXTENDS Integers, Sequences, FiniteSets, TLC

VARIABLES
    variant,        \* which resource class the instance is
    properties,     \* self.properties (validated, declared values)
    stack,          \* self.stack: resource name -> its AlarmUrl attribute
    resource_id,    \* self.resource_id
    alarm,          \* the alarm held by the external alarm API
    watch_rule,     \* the legacy watch-rule record in the engine's store
    calls,          \* outbound calls issued by the last handler, in order
    raised,         \* exception the last handler left with ("none" if it returned)
    lastOp,         \* the last event: a lifecycle callback, or "out_of_band"
    create_status,  \* "not_called", "complete" or "failed"
    prop_diff,      \* the prop_diff argument of the last handle_update
    last_enabled,   \* enabled value requested by the last effective create/update/suspend/resume
    result,         \* output of the pure transform under study
    result2,        \* output of the transform applied to its own output
    pc              \* which study the behaviour belongs to and how far it is

vars == <<variant, properties, stack, resource_id, alarm, watch_rule, calls,
          raised, lastOp, create_status, prop_diff, last_enabled, result,
          result2, pc>>

lifecycleVars == <<variant, resource_id, alarm, watch_rule, calls, raised,
                   lastOp, create_status, prop_diff, last_enabled>>

-----------------------------------------------------------------------------
(* Bounds *)

MaxActs == 2        \* longest action list drawn as input
MaxEntries == 2     \* most entries in a matching_metadata map drawn as input
MaxDiff == 2        \* most properties changed by one handle_update

-----------------------------------------------------------------------------
(* Python values *)

PyNone == [kind |-> "none", val |-> <<>>]
PyStr(s) == [kind |-> "str", val |-> s]
PyBool(b) == [kind |-> "bool", val |-> b]
PyList(s) == [kind |-> "list", val |-> s]
PyDict(d) == [kind |-> "dict", val |-> d]

EmptyDict == [k \in {} |-> PyNone]

\* bool(v) as the interpreter computes it for the value kinds used here
Truthy(v) ==
    CASE v.kind = "none" -> FALSE
      [] v.kind = "str"  -> v.val # ""
      [] v.kind = "bool" -> v.val
      [] v.kind = "list" -> v.val # <<>>
      [] v.kind = "dict" -> DOMAIN v.val # {}

\* d.get(k): the value, or None when the key is missing
DictGet(d, k) == IF k \in DOMAIN d THEN d[k] ELSE PyNone

\* d[k] = v
DictPut(d, k, v) == (k :> v) @@ d

\* d with the key k removed (the mapping left behind by d.pop(k, None))
DictDel(d, k) == [x \in DOMAIN d \ {k} |-> d[x]]

\* str.startswith on token sequences
StartsWith(s, p) == Len(s) >= Len(p) /\ SubSeq(s, 1, Len(p)) = p

\* all iteration orders of a finite key set
Orders(S) ==
    {o \in [1..Cardinality(S) -> S] : \A i, j \in 1..Cardinality(S) : o[i] = o[j] => i = j}

-----------------------------------------------------------------------------
(* Module-level names of alarm.py *)

ALARM_ACTIONS == "alarm_actions"
OK_ACTIONS == "ok_actions"
REPEAT_ACTIONS == "repeat_actions"
INSUFFICIENT_DATA_ACTIONS == "insufficient_data_actions"
DESCRIPTION == "description"
ENABLED_KEY == "enabled"   \* ENABLED in alarm.py (a reserved word here)

METER_NAME == "meter_name"
THRESHOLD == "threshold"
MATCHING_METADATA == "matching_metadata"

ALARM_IDS == "alarm_ids"
OPERATOR == "operator"

NOVA_METERS ==
    {"instance", "memory", "memory.usage",
     "cpu", "cpu_util", "vcpus",
     "disk.read.requests", "disk.read.requests.rate",
     "disk.write.requests", "disk.write.requests.rate",
     "disk.read.bytes", "disk.read.bytes.rate",
     "disk.write.bytes", "disk.write.bytes.rate",
     "disk.device.read.requests", "disk.device.read.requests.rate",
     "disk.device.write.requests", "disk.device.write.requests.rate",
     "disk.device.read.bytes", "disk.device.read.bytes.rate",
     "disk.device.write.bytes", "disk.device.write.bytes.rate",
     "disk.root.size", "disk.ephemeral.size",
     "network.incoming.bytes", "network.incoming.bytes.rate",
     "network.outgoing.bytes", "network.outgoing.bytes.rate",
     "network.incoming.packets", "network.incoming.packets.rate",
     "network.outgoing.packets", "network.outgoing.packets.rate"}

-----------------------------------------------------------------------------
(* actions_to_urls *)

\* the inner loop "for act in v" with the list built so far in acc;
\* act is a string of the template, stack[act].FnGetAtt('AlarmUrl') is
\* whatever the peer resource answers and is appended as it comes
RECURSIVE ResolveActs_NoFilter(_, _, _)
ResolveActs_NoFilter(stk, v, acc) ==
    IF v = <<>> THEN acc
    ELSE LET act == Head(v) IN
         IF act.val \in DOMAIN stk
         THEN ResolveActs_NoFilter(stk, Tail(v), Append(acc, stk[act.val]))
         ELSE ResolveActs_NoFilter(stk, Tail(v), Append(acc, act))

RECURSIVE ResolveActs(_, _, _)
ResolveActs(stk, v, acc) ==
    IF v = <<>> THEN acc
    ELSE LET act == Head(v) IN
         IF act.val \in DOMAIN stk
         THEN ResolveActs(stk, Tail(v), Append(acc, stk[act.val]))
         ELSE IF Truthy(act)
              THEN ResolveActs(stk, Tail(v), Append(acc, act))
              ELSE ResolveActs(stk, Tail(v), acc)

actions_to_urls(stk, props) ==
    [k \in DOMAIN props |->
        IF k \in {ALARM_ACTIONS, OK_ACTIONS, INSUFFICIENT_DATA_ACTIONS}
           /\ props[k] # PyNone
        THEN PyList(ResolveActs(stk, props[k].val, <<>>))
        ELSE props[k]]

-----------------------------------------------------------------------------
(* CeilometerAlarm.cfn_to_ceilometer *)

USER_METADATA_PREFIX == <<"user_metadata", ".">>
METERING_PREFIX == <<"metering", ".">>
METADATA_DOT == <<"metadata", ".">>

\* lines 177-180: the namespace prefix chosen from the meter name
MeterPrefix(kwargs) ==
    LET m == DictGet(kwargs, METER_NAME) IN
    IF m.kind = "str" /\ m.val \in NOVA_METERS
    THEN USER_METADATA_PREFIX
    ELSE METERING_PREFIX

\* lines 187-192 with the first branch lost
NormalizeKey_NoKeep(m_k, prefix) ==
    IF StartsWith(m_k, prefix) THEN METADATA_DOT \o m_k
    ELSE METADATA_DOT \o prefix \o m_k

\* lines 187-192 with the second branch lost
NormalizeKey_NoBare(m_k, prefix) ==
    IF StartsWith(m_k, METADATA_DOT \o prefix) THEN m_k
    ELSE METADATA_DOT \o prefix \o m_k

\* lines 187-192: the key under which one matching_metadata entry is stored
NormalizeKey(m_k, prefix) ==
    IF StartsWith(m_k, METADATA_DOT \o prefix) THEN m_k
    ELSE IF StartsWith(m_k, prefix) THEN METADATA_DOT \o m_k
    ELSE METADATA_DOT \o prefix \o m_k

\* lines 186-192: the loop over the entries of v, visited in the order
\* `order`, writing into the dict acc (a later write to a key wins)
RECURSIVE NormalizeLoop(_, _, _, _)
NormalizeLoop(v, order, prefix, acc) ==
    IF order = <<>> THEN acc
    ELSE LET m_k == Head(order) IN
         NormalizeLoop(v, Tail(order), prefix,
                       DictPut(acc, NormalizeKey(m_k, prefix), v[m_k]))

\* order is the iteration order six.iteritems gives the matching_metadata
\* dict (unused when the mapping has no matching_metadata)
cfn_to_ceilometer(stk, props, order) ==
    LET kwargs == actions_to_urls(stk, props)
        prefix == MeterPrefix(kwargs)
    IN  [k \in DOMAIN kwargs |->
            IF k = MATCHING_METADATA
            THEN PyDict(NormalizeLoop(props[k].val, order, prefix, <<>>))
            ELSE kwargs[k]]

\* the iteration orders available for the matching_metadata of props
MetadataOrders(props) ==
    IF MATCHING_METADATA \in DOMAIN props
    THEN Orders(DOMAIN props[MATCHING_METADATA].val)
    ELSE {<<>>}

-----------------------------------------------------------------------------
(* CombinationAlarm._reformat_properties *)

COMBINATION_RULE == "combination_rule"

RuleNames == <<ALARM_IDS, OPERATOR, REPEAT_ACTIONS>>

\* the loop of lines 285-288 over names[i..], with the mapping popped so far
\* and the rule built so far
RECURSIVE ReformatLoop(_, _, _)
ReformatLoop(props, rule, i) ==
    IF i > Len(RuleNames) THEN [properties |-> props, combination_rule |-> rule]
    ELSE LET name == RuleNames[i]
             value == DictGet(props, name)
             popped == DictDel(props, name)
         IN  IF Truthy(value)
             THEN ReformatLoop(popped, DictPut(rule, name, value), i + 1)
             ELSE ReformatLoop(popped, rule, i + 1)

\* the reshaper without its "if combination_rule" test
reformat_properties_Always(props) ==
    LET r == ReformatLoop(props, EmptyDict, 1) IN
    DictPut(r.properties, COMBINATION_RULE, PyDict(r.combination_rule))

reformat_properties(props) ==
    LET r == ReformatLoop(props, EmptyDict, 1) IN
    IF DOMAIN r.combination_rule # {}
    THEN DictPut(r.properties, COMBINATION_RULE, PyDict(r.combination_rule))
    ELSE r.properties

-----------------------------------------------------------------------------
(* Inputs of the transforms *)

BoundedSeq(S, n) == UNION {[1..m -> S] : m \in 0..n}

\* a resource name, a literal URL and the empty string, as a template gives them
PolicyName == "ScaleUpPolicy"
ActionEntries == {PyStr(PolicyName), PyStr("http://hook/a"), PyStr("")}

\* the stack either lacks the resource or holds it; its AlarmUrl attribute is
\* a signed URL once the resource exists and None before that
Stacks ==
    {EmptyDict,
     (PolicyName :> PyStr("http://signal/ScaleUpPolicy")),
     (PolicyName :> PyNone)}

ActionLists == {PyList(l) : l \in BoundedSeq(ActionEntries, MaxActs)}

ActionKeys == {ALARM_ACTIONS, OK_ACTIONS, INSUFFICIENT_DATA_ACTIONS}

ActionProps ==
    {f @@ (DESCRIPTION :> PyStr("d")) : f \in [ActionKeys -> ActionLists \cup {PyNone}]}

MetaLocals == {<<"instance_type">>, <<"owner">>}
MetaWraps ==
    {<<>>, USER_METADATA_PREFIX, METERING_PREFIX, METADATA_DOT,
     METADATA_DOT \o USER_METADATA_PREFIX, METADATA_DOT \o METERING_PREFIX}
MetaKeys == {w \o l : w \in MetaWraps, l \in MetaLocals}
MetaValues == {"m1.small", "x"}
MetaMaps ==
    UNION {[S -> MetaValues] : S \in {T \in SUBSET MetaKeys : Cardinality(T) <= MaxEntries}}
MeterNames == {"cpu_util", "instance", "image.size"}

MetaProps ==
    {(METER_NAME :> PyStr(m)) @@ (MATCHING_METADATA :> PyDict(mm)) :
        m \in MeterNames, mm \in MetaMaps}

\* every mapping over a subset of the keys, each key drawing from its own values
MapsOver(vals) ==
    UNION {{f \in [D -> UNION {vals[k] : k \in D}] : \A k \in D : f[k] \in vals[k]} :
           D \in SUBSET DOMAIN vals}

ReformatValues ==
    (ALARM_IDS :> {PyList(<<>>), PyList(<<PyStr("a"), PyStr("b")>>), PyNone}) @@
    (OPERATOR :> {PyStr("and"), PyStr("or"), PyNone}) @@
    (REPEAT_ACTIONS :> {PyBool(TRUE), PyBool(FALSE), PyNone}) @@
    (DESCRIPTION :> {PyStr("d")}) @@
    (ENABLED_KEY :> {PyBool(TRUE), PyBool(FALSE)}) @@
    ("alarm_id" :> {PyStr("alarm-1")})

ReformatProps == MapsOver(ReformatValues)

-----------------------------------------------------------------------------
(* The lifecycle variables at rest, for the behaviours that study a transform *)

LifecycleIdle ==
    /\ variant = "none"
    /\ resource_id = PyNone
    /\ alarm = [exists |-> FALSE, enabled |-> FALSE]
    /\ watch_rule = [exists |-> FALSE, name |-> "", state |-> "none"]
    /\ calls = <<>>
    /\ raised = "none"
    /\ lastOp = "none"
    /\ create_status = "not_called"
    /\ prop_diff = EmptyDict
    /\ last_enabled = FALSE

(* actions_to_urls applied to a drawn stack and property mapping *)

InitActions ==
    /\ pc = "input"
    /\ stack \in Stacks
    /\ properties \in ActionProps
    /\ result = EmptyDict
    /\ result2 = EmptyDict
    /\ LifecycleIdle

ApplyActionsToUrls ==
    /\ pc = "input"
    /\ result' = actions_to_urls(stack, properties)
    /\ pc' = "done"
    /\ UNCHANGED <<properties, stack, result2, lifecycleVars>>

NextActions == ApplyActionsToUrls

SpecActions == InitActions /\ [][NextActions]_vars

(* cfn_to_ceilometer applied to a drawn mapping, then to its own output *)

InitMeta ==
    /\ pc = "input"
    /\ stack = EmptyDict
    /\ properties \in MetaProps
    /\ result = EmptyDict
    /\ result2 = EmptyDict
    /\ LifecycleIdle

NormalizeOnce ==
    /\ pc = "input"
    /\ \E order \in MetadataOrders(properties) :
          result' = cfn_to_ceilometer(stack, properties, order)
    /\ pc' = "once"
    /\ UNCHANGED <<properties, stack, result2, lifecycleVars>>

NormalizeTwice ==
    /\ pc = "once"
    /\ \E order \in MetadataOrders(result) :
          result2' = cfn_to_ceilometer(stack, result, order)
    /\ pc' = "twice"
    /\ UNCHANGED <<properties, stack, result, lifecycleVars>>

NextMeta == NormalizeOnce \/ NormalizeTwice

SpecMeta == InitMeta /\ [][NextMeta]_vars

(* _reformat_properties applied to a drawn mapping *)

InitReformat ==
    /\ pc = "input"
    /\ stack = EmptyDict
    /\ properties \in ReformatProps
    /\ result = EmptyDict
    /\ result2 = EmptyDict
    /\ LifecycleIdle

ApplyReformat ==
    /\ pc = "input"
    /\ result' = reformat_properties(properties)
    /\ pc' = "done"
    /\ UNCHANGED <<properties, stack, result2, lifecycleVars>>

NextReformat == ApplyReformat

SpecReformat == InitReformat /\ [][NextReformat]_vars

-----------------------------------------------------------------------------
(* The collaborators of the handlers: the alarm API client, the watch-rule *)
(* store and the client plugin.  Each call takes the state it acts on and  *)
(* whether it meets a failure of its own (fault), and gives the new state, *)
(* the exception it raises ("none" if it returns) and its return value.    *)
(* env is [alarm, watch_rule, calls]; every call is logged in env.calls.   *)

AlarmId == PyStr("alarm-1")
PhysicalName == "stack-MyAlarm-x1"
CEILOMETER_CONTROLLED == "CEILOMETER_CONTROLLED"

NoAlarm == [exists |-> FALSE, enabled |-> FALSE]
NoWatchRule == [exists |-> FALSE, name |-> "", state |-> "none"]

Logged(env, op, kwargs, exc) ==
    [env EXCEPT !.calls = Append(@, [op |-> op, kwargs |-> kwargs, exc |-> exc])]

\* self.ceilometer().alarms.create(**kwargs)
alarms_create(env, kwargs, fault) ==
    IF fault
    THEN [env |-> Logged(env, "alarms.create", kwargs, "ClientError"),
          exc |-> "ClientError", ret |-> PyNone]
    ELSE [env |-> [Logged(env, "alarms.create", kwargs, "none") EXCEPT
                      !.alarm = [exists |-> TRUE, enabled |-> kwargs[ENABLED_KEY].val]],
          exc |-> "none", ret |-> AlarmId]

\* self.ceilometer().alarms.update(**kwargs)
alarms_update(env, kwargs, fault) ==
    LET exc == IF fault THEN "ClientError"
               ELSE IF ~env.alarm.exists \/ kwargs["alarm_id"] # AlarmId THEN "NotFound"
               ELSE "none"
    IN  [env |-> IF exc = "none" /\ ENABLED_KEY \in DOMAIN kwargs
                 THEN [Logged(env, "alarms.update", kwargs, exc) EXCEPT
                          !.alarm.enabled = kwargs[ENABLED_KEY].val]
                 ELSE Logged(env, "alarms.update", kwargs, exc),
         exc |-> exc, ret |-> PyNone]

\* self.ceilometer().alarms.delete(alarm_id)
alarms_delete(env, alarm_id, fault) ==
    LET exc == IF fault THEN "ClientError"
               ELSE IF ~env.alarm.exists \/ alarm_id # AlarmId THEN "NotFound"
               ELSE "none"
        kwargs == ("alarm_id" :> alarm_id)
    IN  [env |-> IF exc = "none"
                 THEN [Logged(env, "alarms.delete", kwargs, exc) EXCEPT !.alarm = NoAlarm]
                 ELSE Logged(env, "alarms.delete", kwargs, exc),
         exc |-> exc, ret |-> PyNone]

\* self.client_plugin().ignore_not_found(ex): returns for a not-found error,
\* raises ex again for any other
ignore_not_found(ex) == IF ex = "NotFound" THEN "none" ELSE ex

\* wr = WatchRule(..., watch_name=name, ...); wr.state = state; wr.store()
WatchRule_store(env, name, state, fault) ==
    LET kwargs == ("watch_name" :> PyStr(name)) @@ ("state" :> PyStr(state)) IN
    IF fault
    THEN [env |-> Logged(env, "WatchRule.store", kwargs, "DBError"),
          exc |-> "DBError", ret |-> PyNone]
    ELSE [env |-> [Logged(env, "WatchRule.store", kwargs, "none") EXCEPT
                      !.watch_rule = [exists |-> TRUE, name |-> name, state |-> state]],
          exc |-> "none", ret |-> PyNone]

\* WatchRule.load(context, watch_name=name)
WatchRule_load(env, name, fault) ==
    LET exc == IF fault THEN "DBError"
               ELSE IF ~env.watch_rule.exists \/ env.watch_rule.name # name
                    THEN "WatchRuleNotFound"
               ELSE "none"
    IN  [env |-> Logged(env, "WatchRule.load", ("watch_name" :> PyStr(name)), exc),
         exc |-> exc, ret |-> PyNone]

\* wr.destroy()
WatchRule_destroy(env, name, fault) ==
    LET exc == IF fault THEN "DBError" ELSE "none"
        kwargs == ("watch_name" :> PyStr(name))
    IN  [env |-> IF exc = "none"
                 THEN [Logged(env, "WatchRule.destroy", kwargs, exc) EXCEPT
                          !.watch_rule = NoWatchRule]
                 ELSE Logged(env, "WatchRule.destroy", kwargs, exc),
         exc |-> exc, ret |-> PyNone]

-----------------------------------------------------------------------------
(* The handlers.  self is [properties, stack, resource_id]; f[i] tells      *)
(* whether the i-th outbound call of the handler meets a failure.  Each     *)
(* handler gives the new self, the new env and the exception it leaves     *)
(* with.                                                                    *)

Returned(self, env) == [self |-> self, env |-> env, exc |-> "none"]
Raised(self, env, exc) == [self |-> self, env |-> env, exc |-> exc]

CeilometerAlarm_handle_create(self, env, order, f) ==
    LET props == DictPut(cfn_to_ceilometer(self.stack, self.properties, order),
                         "name", PyStr(PhysicalName))
        r1 == alarms_create(env, props, f[1])
    IN  IF r1.exc # "none" THEN Raised(self, r1.env, r1.exc)
        ELSE LET self1 == [self EXCEPT !.resource_id = r1.ret]
                 r2 == WatchRule_store(r1.env, PhysicalName, CEILOMETER_CONTROLLED, f[2])
             IN  Raised(self1, r2.env, r2.exc)

CeilometerAlarm_handle_update(self, env, diff, order, f) ==
    IF DOMAIN diff # {}
    THEN LET kwargs == diff @@ ("alarm_id" :> self.resource_id)
             r1 == alarms_update(env, cfn_to_ceilometer(self.stack, kwargs, order), f[1])
         IN  Raised(self, r1.env, r1.exc)
    ELSE Returned(self, env)

\* handle_suspend / handle_resume without the "is not None" test
CeilometerAlarm_set_enabled_NoGuard(self, env, enabled, f) ==
    LET r1 == alarms_update(env, ("alarm_id" :> self.resource_id) @@
                                 (ENABLED_KEY :> PyBool(enabled)), f[1])
    IN  Raised(self, r1.env, r1.exc)

\* the common body of handle_suspend (enabled=False) and handle_resume
\* (enabled=True)
CeilometerAlarm_set_enabled(self, env, enabled, f) ==
    IF self.resource_id # PyNone
    THEN LET r1 == alarms_update(env, ("alarm_id" :> self.resource_id) @@
                                      (ENABLED_KEY :> PyBool(enabled)), f[1])
         IN  Raised(self, r1.env, r1.exc)
    ELSE Returned(self, env)

CeilometerAlarm_handle_suspend(self, env, f) == CeilometerAlarm_set_enabled(self, env, FALSE, f)

\* handle_resume re-applying the declared enabled property instead of True
CeilometerAlarm_handle_resume_Declared(self, env, f) ==
    CeilometerAlarm_set_enabled(self, env, self.properties[ENABLED_KEY].val, f)

CeilometerAlarm_handle_resume(self, env, f) == CeilometerAlarm_set_enabled(self, env, TRUE, f)

\* lines 239-243, run after the watch-rule part
CeilometerAlarm_delete_alarm(self, env, fault) ==
    IF self.resource_id # PyNone
    THEN LET r == alarms_delete(env, self.resource_id, fault)
         IN  IF r.exc # "none"
             THEN Raised(self, r.env, ignore_not_found(r.exc))
             ELSE Returned(self, r.env)
    ELSE Returned(self, env)

\* handle_delete without its "except WatchRuleNotFound"
CeilometerAlarm_handle_delete_NoCatch(self, env, f) ==
    LET r1 == WatchRule_load(env, PhysicalName, f[1]) IN
    IF r1.exc # "none" THEN Raised(self, r1.env, r1.exc)
    ELSE LET r2 == WatchRule_destroy(r1.env, PhysicalName, f[2]) IN
         IF r2.exc # "none" THEN Raised(self, r2.env, r2.exc)
         ELSE CeilometerAlarm_delete_alarm(self, r2.env, f[3])

\* handle_delete returning from inside its "except WatchRuleNotFound"
CeilometerAlarm_handle_delete_EarlyReturn(self, env, f) ==
    LET r1 == WatchRule_load(env, PhysicalName, f[1]) IN
    IF r1.exc = "WatchRuleNotFound" THEN Returned(self, r1.env)
    ELSE IF r1.exc # "none" THEN Raised(self, r1.env, r1.exc)
    ELSE LET r2 == WatchRule_destroy(r1.env, PhysicalName, f[2]) IN
         IF r2.exc # "none" THEN Raised(self, r2.env, r2.exc)
         ELSE CeilometerAlarm_delete_alarm(self, r2.env, f[3])

CeilometerAlarm_handle_delete(self, env, f) ==
    LET r1 == WatchRule_load(env, PhysicalName, f[1]) IN
    IF r1.exc = "WatchRuleNotFound" THEN CeilometerAlarm_delete_alarm(self, r1.env, f[3])
    ELSE IF r1.exc # "none" THEN Raised(self, r1.env, r1.exc)
    ELSE LET r2 == WatchRule_destroy(r1.env, PhysicalName, f[2]) IN
         IF r2.exc = "WatchRuleNotFound" THEN CeilometerAlarm_delete_alarm(self, r2.env, f[3])
         ELSE IF r2.exc # "none" THEN Raised(self, r2.env, r2.exc)
         ELSE CeilometerAlarm_delete_alarm(self, r2.env, f[3])

CombinationAlarm_handle_create(self, env, f) ==
    LET props0 == actions_to_urls(self.stack, self.properties)
        props == DictPut(DictPut(props0, "name", PyStr(PhysicalName)),
                         "type", PyStr("combination"))
        r1 == alarms_create(env, reformat_properties(props), f[1])
    IN  IF r1.exc # "none" THEN Raised(self, r1.env, r1.exc)
        ELSE Returned([self EXCEPT !.resource_id = r1.ret], r1.env)

CombinationAlarm_handle_update(self, env, diff, f) ==
    IF DOMAIN diff # {}
    THEN LET kwargs == diff @@ ("alarm_id" :> self.resource_id)
             r1 == alarms_update(env, reformat_properties(actions_to_urls(self.stack, kwargs)),
                                 f[1])
         IN  Raised(self, r1.env, r1.exc)
    ELSE Returned(self, env)

\* handle_suspend / handle_resume with the guard the other class has
CombinationAlarm_set_enabled_Guarded(self, env, enabled, f) ==
    IF self.resource_id # PyNone
    THEN LET r1 == alarms_update(env, ("alarm_id" :> self.resource_id) @@
                                      (ENABLED_KEY :> PyBool(enabled)), f[1])
         IN  Raised(self, r1.env, r1.exc)
    ELSE Returned(self, env)

\* the common body of handle_suspend (enabled=False) and handle_resume
\* (enabled=True)
CombinationAlarm_set_enabled(self, env, enabled, f) ==
    LET r1 == alarms_update(env, ("alarm_id" :> self.resource_id) @@
                                 (ENABLED_KEY :> PyBool(enabled)), f[1])
    IN  Raised(self, r1.env, r1.exc)

CombinationAlarm_handle_suspend(self, env, f) == CombinationAlarm_set_enabled(self, env, FALSE, f)

CombinationAlarm_handle_resume(self, env, f) == CombinationAlarm_set_enabled(self, env, TRUE, f)

CombinationAlarm_handle_delete(self, env, f) ==
    LET r == alarms_delete(env, self.resource_id, f[1])
    IN  IF r.exc # "none"
        THEN Raised(self, r.env, ignore_not_found(r.exc))
        ELSE Returned(self, r.env)

-----------------------------------------------------------------------------
(* The resource in its stack: the engine invokes the lifecycle callbacks,  *)
(* and the alarm and the watch rule can be removed behind its back.        *)

CeilometerAlarmClass == "CeilometerAlarm"
CombinationAlarmClass == "CombinationAlarm"

ActionChoices == {PyNone, PyList(<<PyStr(PolicyName), PyStr("")>>)}

\* the stack holds the policy the action lists name, or does not
LifecycleStacks == {EmptyDict, (PolicyName :> PyStr("http://signal/ScaleUpPolicy"))}

CeilometerAlarmProps ==
    {(METER_NAME :> PyStr("cpu_util")) @@ (THRESHOLD :> PyStr("50")) @@
     (MATCHING_METADATA :> PyDict((<<"instance_type">> :> "m1.small"))) @@
     (ENABLED_KEY :> PyBool(e)) @@ (REPEAT_ACTIONS :> PyBool(TRUE)) @@
     (ALARM_ACTIONS :> a) :
        e \in BOOLEAN, a \in ActionChoices}

CombinationAlarmProps ==
    {(ALARM_IDS :> PyList(<<PyStr("a"), PyStr("b")>>)) @@ (OPERATOR :> PyStr("and")) @@
     (ENABLED_KEY :> PyBool(e)) @@ (REPEAT_ACTIONS :> PyBool(TRUE)) @@
     (ALARM_ACTIONS :> a) :
        e \in BOOLEAN, a \in ActionChoices}

\* the update_allowed properties a stack update can change, with new values
CeilometerAlarmDiffValues ==
    (ENABLED_KEY :> {PyBool(TRUE), PyBool(FALSE)}) @@
    (ALARM_ACTIONS :> {PyList(<<PyStr(PolicyName), PyStr("")>>)}) @@
    (THRESHOLD :> {PyStr("80")})

CombinationAlarmDiffValues ==
    (ENABLED_KEY :> {PyBool(TRUE), PyBool(FALSE)}) @@
    (REPEAT_ACTIONS :> {PyBool(TRUE), PyBool(FALSE)}) @@
    (ALARM_ACTIONS :> {PyList(<<PyStr(PolicyName), PyStr("")>>)}) @@
    (ALARM_IDS :> {PyList(<<PyStr("a")>>)})

CeilometerAlarmDiffs ==
    {d \in MapsOver(CeilometerAlarmDiffValues) : Cardinality(DOMAIN d) <= MaxDiff}
CombinationAlarmDiffs ==
    {d \in MapsOver(CombinationAlarmDiffValues) : Cardinality(DOMAIN d) <= MaxDiff}

\* for each of the n outbound calls of a handler, whether it fails
Faults(n) == [1..n -> BOOLEAN]

Self == [properties |-> properties, stack |-> stack, resource_id |-> resource_id]
Env == [alarm |-> alarm, watch_rule |-> watch_rule, calls |-> <<>>]

\* the state a handler leaves behind: r is what the handler gave, op its name
Leaves(r, op) ==
    /\ resource_id' = r.self.resource_id
    /\ alarm' = r.env.alarm
    /\ watch_rule' = r.env.watch_rule
    /\ calls' = r.env.calls
    /\ raised' = r.exc
    /\ lastOp' = op
    /\ UNCHANGED <<variant, properties, stack, result, result2, pc>>

Init ==
    /\ pc = "lifecycle"
    /\ variant \in {CeilometerAlarmClass, CombinationAlarmClass}
    /\ properties \in IF variant = CeilometerAlarmClass
                      THEN CeilometerAlarmProps ELSE CombinationAlarmProps
    /\ stack \in LifecycleStacks
    /\ resource_id = PyNone
    /\ alarm = NoAlarm
    /\ watch_rule = NoWatchRule
    /\ calls = <<>>
    /\ raised = "none"
    /\ lastOp = "none"
    /\ create_status = "not_called"
    /\ prop_diff = EmptyDict
    /\ last_enabled = FALSE
    /\ result = EmptyDict
    /\ result2 = EmptyDict

HandleCreate ==
    /\ pc = "lifecycle"
    /\ create_status = "not_called"
    /\ \E f \in Faults(IF variant = CeilometerAlarmClass THEN 2 ELSE 1),
          order \in MetadataOrders(properties) :
          LET r == IF variant = CeilometerAlarmClass
                   THEN CeilometerAlarm_handle_create(Self, Env, order, f)
                   ELSE CombinationAlarm_handle_create(Self, Env, f)
          IN  /\ Leaves(r, "create")
              /\ create_status' = IF r.exc = "none" THEN "complete" ELSE "failed"
              /\ last_enabled' = IF r.exc = "none"
                                 THEN properties[ENABLED_KEY].val ELSE last_enabled
    /\ prop_diff' = EmptyDict

\* the engine records the new property values itself once the handler has
\* returned; the handlers read only prop_diff, so properties stays as declared
HandleUpdate ==
    /\ pc = "lifecycle"
    /\ create_status = "complete"
    /\ \E f \in Faults(1),
          diff \in IF variant = CeilometerAlarmClass
                   THEN CeilometerAlarmDiffs ELSE CombinationAlarmDiffs :
          \E order \in MetadataOrders(diff) :
             LET r == IF variant = CeilometerAlarmClass
                      THEN CeilometerAlarm_handle_update(Self, Env, diff, order, f)
                      ELSE CombinationAlarm_handle_update(Self, Env, diff, f)
             IN  /\ Leaves(r, "update")
                 /\ prop_diff' = diff
                 /\ last_enabled' = IF r.exc = "none" /\ ENABLED_KEY \in DOMAIN diff
                                    THEN diff[ENABLED_KEY].val ELSE last_enabled
    /\ UNCHANGED create_status

HandleSuspend ==
    /\ pc = "lifecycle"
    /\ \E f \in Faults(1) :
          LET r == IF variant = CeilometerAlarmClass
                   THEN CeilometerAlarm_handle_suspend(Self, Env, f)
                   ELSE CombinationAlarm_handle_suspend(Self, Env, f)
          IN  /\ Leaves(r, "suspend")
              /\ last_enabled' = IF r.exc = "none" /\ r.env.calls # <<>>
                                 THEN FALSE ELSE last_enabled
    /\ prop_diff' = EmptyDict
    /\ UNCHANGED create_status

HandleResume ==
    /\ pc = "lifecycle"
    /\ \E f \in Faults(1) :
          LET r == IF variant = CeilometerAlarmClass
                   THEN CeilometerAlarm_handle_resume(Self, Env, f)
                   ELSE CombinationAlarm_handle_resume(Self, Env, f)
          IN  /\ Leaves(r, "resume")
              /\ last_enabled' = IF r.exc = "none" /\ r.env.calls # <<>>
                                 THEN TRUE ELSE last_enabled
    /\ prop_diff' = EmptyDict
    /\ UNCHANGED create_status

HandleDelete ==
    /\ pc = "lifecycle"
    /\ \E f \in Faults(IF variant = CeilometerAlarmClass THEN 3 ELSE 1) :
          LET r == IF variant = CeilometerAlarmClass
                   THEN CeilometerAlarm_handle_delete(Self, Env, f)
                   ELSE CombinationAlarm_handle_delete(Self, Env, f)
          IN  Leaves(r, "delete")
    /\ prop_diff' = EmptyDict
    /\ UNCHANGED <<create_status, last_enabled>>

\* someone deletes the alarm through the alarm API directly
AlarmRemovedOutOfBand ==
    /\ pc = "lifecycle"
    /\ alarm.exists
    /\ alarm' = NoAlarm
    /\ lastOp' = "out_of_band"
    /\ UNCHANGED <<variant, properties, stack, resource_id, watch_rule, calls, raised,
                   create_status, prop_diff, last_enabled, result, result2, pc>>

\* the watch-rule record is deleted from the store directly
WatchRuleRemovedOutOfBand ==
    /\ pc = "lifecycle"
    /\ watch_rule.exists
    /\ watch_rule' = NoWatchRule
    /\ lastOp' = "out_of_band"
    /\ UNCHANGED <<variant, properties, stack, resource_id, alarm, calls, raised,
                   create_status, prop_diff, last_enabled, result, result2, pc>>

Next ==
    \/ HandleCreate
    \/ HandleUpdate
    \/ HandleSuspend
    \/ HandleResume
    \/ HandleDelete
    \/ AlarmRemovedOutOfBand
    \/ WatchRuleRemovedOutOfBand

Spec == Init /\ [][Next]_vars

-----------------------------------------------------------------------------
(* Properties of the metadata-prefix normalizer, checked under SpecMeta *)

InputMetadata == properties[MATCHING_METADATA].val
OutputMetadata == result[MATCHING_METADATA].val

\* the prefix the meter name calls for
PrefixForMeter ==
    IF properties[METER_NAME].val \in NOVA_METERS
    THEN USER_METADATA_PREFIX
    ELSE METERING_PREFIX

\* the key with whatever share of metadata.<p> it already carries taken off
LocalKey(k, p) ==
    IF StartsWith(k, METADATA_DOT \o p) THEN SubSeq(k, Len(p) + 3, Len(k))
    ELSE IF StartsWith(k, p) THEN SubSeq(k, Len(p) + 1, Len(k))
    ELSE k

TargetKey(k) == METADATA_DOT \o PrefixForMeter \o LocalKey(k, PrefixForMeter)

SharesTarget(k) ==
    \E j \in DOMAIN InputMetadata : j # k /\ TargetKey(j) = TargetKey(k)

\* C3: normalizing the normalizer's own output, with the same meter name,
\* gives the same matching_metadata map as normalizing once.
Thm_C3_NormalizeIdempotent ==
    pc = "twice" => result2[MATCHING_METADATA] = result[MATCHING_METADATA]

\* reached: a second pass over a map the first pass had to rewrite
Witness_C3 ==
    /\ pc = "twice"
    /\ DOMAIN OutputMetadata # DOMAIN InputMetadata
    /\ \E k \in DOMAIN InputMetadata : StartsWith(k, PrefixForMeter)
    /\ result2 = result

\* C4 as stated: every entry of the input map is in the output, under
\* metadata.<p><local key>, with its value.
Claim_C4_EveryEntryKept ==
    pc # "input" =>
        \A k \in DOMAIN InputMetadata :
            /\ TargetKey(k) \in DOMAIN OutputMetadata
            /\ OutputMetadata[TargetKey(k)] = InputMetadata[k]

\* C4 amended: the output keys are exactly the keys metadata.<p><local key>
\* of the input entries; an entry that shares its local key with no other
\* entry keeps its value; entries that share one leave a single output entry
\* holding the value of one of them.
Thm_C4_TargetKeys ==
    pc # "input" =>
        /\ DOMAIN OutputMetadata = {TargetKey(k) : k \in DOMAIN InputMetadata}
        /\ \A k \in DOMAIN InputMetadata :
              ~SharesTarget(k) => OutputMetadata[TargetKey(k)] = InputMetadata[k]
        /\ \A t \in DOMAIN OutputMetadata :
              \E k \in DOMAIN InputMetadata :
                  TargetKey(k) = t /\ OutputMetadata[t] = InputMetadata[k]

\* reached: meter cpu_util with {instance_type: m1.small}
Witness_C4 ==
    /\ pc = "once"
    /\ properties[METER_NAME] = PyStr("cpu_util")
    /\ InputMetadata = (<<"instance_type">> :> "m1.small")
    /\ OutputMetadata =
         (<<"metadata", ".", "user_metadata", ".", "instance_type">> :> "m1.small")

-----------------------------------------------------------------------------
(* Properties of actions_to_urls, checked under SpecActions *)

InStack(a) == a.val \in DOMAIN stack
NonEmptyLiteral(a) == ~InStack(a) /\ a.val # ""
KeptAct(a) == InStack(a) \/ a.val # ""

\* what the list v should resolve to: the kept entries, in order, each
\* resource name replaced by that resource's AlarmUrl
ExpectedUrls(v) ==
    LET kept == SelectSeq(v, KeptAct) IN
    [i \in 1..Len(kept) |-> IF InStack(kept[i]) THEN stack[kept[i].val] ELSE kept[i]]

ResolvedAsExpected(k) ==
    /\ result[k].kind = "list"
    /\ result[k].val = ExpectedUrls(properties[k].val)
    /\ Len(result[k].val) =
          Len(SelectSeq(properties[k].val, NonEmptyLiteral))
          + Len(SelectSeq(properties[k].val, InStack))

\* C5 as stated: order kept, names replaced, literals kept, the length is
\* the number of non-empty literals plus the number of resource names, and
\* no entry of the output is empty.
Claim_C5_NoEmptyEntry ==
    pc = "done" =>
        \A k \in ActionKeys :
            properties[k] # PyNone =>
                /\ ResolvedAsExpected(k)
                /\ \A i \in 1..Len(result[k].val) : Truthy(result[k].val[i])

\* C5 amended: as stated, except that only empty literals are dropped: an
\* output entry is empty exactly where it is the AlarmUrl of an in-stack
\* resource whose attribute is itself empty.
Thm_C5_ActionsResolved ==
    pc = "done" =>
        \A k \in ActionKeys :
            properties[k] # PyNone =>
                /\ ResolvedAsExpected(k)
                /\ \A i \in 1..Len(result[k].val) :
                      ~Truthy(result[k].val[i]) =>
                          /\ InStack(SelectSeq(properties[k].val, KeptAct)[i])
                          /\ ~Truthy(stack[SelectSeq(properties[k].val, KeptAct)[i].val])

\* reached: a list with an empty string and a resource name, resolved to the
\* resource's URL alone
Witness_C5 ==
    /\ pc = "done"
    /\ properties[ALARM_ACTIONS] = PyList(<<PyStr(""), PyStr(PolicyName)>>)
    /\ properties[OK_ACTIONS] = PyList(<<PyStr("http://hook/a"), PyStr(PolicyName)>>)
    /\ PolicyName \in DOMAIN stack
    /\ Truthy(stack[PolicyName])
    /\ result[ALARM_ACTIONS] = PyList(<<stack[PolicyName]>>)
    /\ result[OK_ACTIONS] = PyList(<<PyStr("http://hook/a"), stack[PolicyName]>>)

-----------------------------------------------------------------------------
(* Properties of _reformat_properties, checked under SpecReformat *)

RuleKeys == {ALARM_IDS, OPERATOR, REPEAT_ACTIONS}

\* the rule keys that are present with a non-empty value
PresentRuleKeys == {n \in RuleKeys \cap DOMAIN properties : Truthy(properties[n])}

\* C6: no combination_rule key when none of alarm_ids, operator,
\* repeat_actions is present and non-empty; otherwise one combination_rule
\* holding exactly the present ones; the three keys leave the top level and
\* every other key passes through unchanged.
Thm_C6_CombinationRule ==
    pc = "done" =>
        /\ (PresentRuleKeys = {}) => COMBINATION_RULE \notin DOMAIN result
        /\ (PresentRuleKeys # {}) =>
              /\ COMBINATION_RULE \in DOMAIN result
              /\ result[COMBINATION_RULE].kind = "dict"
              /\ DOMAIN result[COMBINATION_RULE].val = PresentRuleKeys
              /\ \A n \in PresentRuleKeys :
                    result[COMBINATION_RULE].val[n] = properties[n]
        /\ RuleKeys \cap DOMAIN result = {}
        /\ DOMAIN result \ {COMBINATION_RULE} = DOMAIN properties \ RuleKeys
        /\ \A k \in DOMAIN properties \ RuleKeys : result[k] = properties[k]

\* reached: {alarm_ids: [a, b], operator: and} plus a description
Witness_C6 ==
    /\ pc = "done"
    /\ properties = (ALARM_IDS :> PyList(<<PyStr("a"), PyStr("b")>>)) @@
                    (OPERATOR :> PyStr("and")) @@ (DESCRIPTION :> PyStr("d"))
    /\ result = (COMBINATION_RULE :>
                    PyDict((ALARM_IDS :> PyList(<<PyStr("a"), PyStr("b")>>)) @@
                           (OPERATOR :> PyStr("and")))) @@
                (DESCRIPTION :> PyStr("d"))

-----------------------------------------------------------------------------
(* Properties of the lifecycle handlers, checked under Spec *)

Benign == {"none", "NotFound", "WatchRuleNotFound"}

WatchRuleOps == {"WatchRule.load", "WatchRule.destroy", "WatchRule.store"}

\* C1: resource_id is None unless handle_create has completed successfully;
\* in particular it is None after a handle_create that raised.
Claim_C1_IdOnlyAfterCreate ==
    pc = "lifecycle" => (create_status # "complete" => resource_id = PyNone)

\* C2: after a successful create, a handle_delete whose outbound calls met
\* nothing worse than not-found (the alarm or the watch rule already gone)
\* does not raise.
Thm_C2_DeleteIdempotent ==
    (/\ lastOp = "delete"
     /\ create_status = "complete"
     /\ \A i \in 1..Len(calls) : calls[i].exc \in Benign)
    => raised = "none"

\* reached: a delete that found neither the watch rule nor the alarm
Witness_C2 ==
    /\ lastOp = "delete"
    /\ create_status = "complete"
    /\ variant = CeilometerAlarmClass
    /\ Len(calls) = 2
    /\ calls[1].op = "WatchRule.load" /\ calls[1].exc = "WatchRuleNotFound"
    /\ calls[2].op = "alarms.delete" /\ calls[2].exc = "NotFound"
    /\ raised = "none"

\* what a changed property should be sent as
SentValue(k) ==
    IF k \in ActionKeys /\ prop_diff[k] # PyNone
    THEN PyList(ExpectedUrls(prop_diff[k].val))
    ELSE prop_diff[k]

UpdateCarriesDiff ==
    LET kw == calls[1].kwargs
        top == DictDel(DictDel(kw, "alarm_id"), COMBINATION_RULE)
        nested == IF variant = CombinationAlarmClass THEN RuleKeys ELSE {}
    IN  /\ calls[1].op = "alarms.update"
        /\ "alarm_id" \in DOMAIN kw
        /\ kw["alarm_id"] = resource_id
        /\ DOMAIN top = DOMAIN prop_diff \ nested
        /\ \A k \in DOMAIN top : top[k] = SentValue(k)
        /\ IF DOMAIN prop_diff \cap nested = {}
           THEN COMBINATION_RULE \notin DOMAIN kw
           ELSE /\ COMBINATION_RULE \in DOMAIN kw
                /\ DOMAIN kw[COMBINATION_RULE].val = DOMAIN prop_diff \cap nested
                /\ \A k \in DOMAIN prop_diff \cap nested :
                      kw[COMBINATION_RULE].val[k] = SentValue(k)

\* C7: handle_update with no changed property calls nothing; with changed
\* properties it issues one alarms.update carrying the stored identifier,
\* every changed field (transformed as on create) and nothing else.
Claim_C7_UpdateCarriesEveryChange ==
    lastOp = "update" =>
        IF DOMAIN prop_diff = {}
        THEN calls = <<>>
        ELSE Len(calls) = 1 /\ UpdateCarriesDiff

\* C8: handle_suspend / handle_resume issue exactly one alarms.update with
\* the stored identifier and enabled=False / enabled=True; CeilometerAlarm
\* issues no call while resource_id is None, CombinationAlarm issues the call
\* even then, with the absent identifier.
Thm_C8_SuspendResume ==
    lastOp \in {"suspend", "resume"} =>
        IF variant = CeilometerAlarmClass /\ resource_id = PyNone
        THEN calls = <<>> /\ raised = "none"
        ELSE /\ Len(calls) = 1
             /\ calls[1].op = "alarms.update"
             /\ calls[1].kwargs = ("alarm_id" :> resource_id) @@
                                  (ENABLED_KEY :> PyBool(lastOp = "resume"))

\* reached: CombinationAlarm suspended before create
Witness_C8 ==
    /\ variant = CombinationAlarmClass
    /\ lastOp = "suspend"
    /\ create_status = "not_called"
    /\ resource_id = PyNone
    /\ Len(calls) = 1
    /\ calls[1].kwargs["alarm_id"] = PyNone
    /\ raised = "NotFound"

\* C9: for CeilometerAlarm, a successful create leaves the watch rule stored
\* under the physical name and marked ceilometer-controlled; every delete
\* goes to the watch rule first and to the alarm API last, a missing watch
\* rule does not stop it, the alarm deletion is attempted whenever an
\* identifier is stored, and a delete that returns leaves neither the watch
\* rule nor the alarm.
Thm_C9_WatchRuleThenAlarm ==
    variant = CeilometerAlarmClass =>
        /\ (lastOp = "create" /\ raised = "none") =>
              /\ watch_rule = [exists |-> TRUE, name |-> PhysicalName,
                               state |-> CEILOMETER_CONTROLLED]
              /\ alarm.exists
        /\ lastOp = "delete" =>
              /\ Len(calls) >= 1
              /\ calls[1].op = "WatchRule.load"
              /\ calls[1].kwargs["watch_name"] = PyStr(PhysicalName)
              /\ \A i \in 1..Len(calls) :
                    calls[i].op = "alarms.delete" => i > 1 /\ i = Len(calls)
              /\ (/\ resource_id # PyNone
                  /\ \A i \in 1..Len(calls) :
                        calls[i].op \in WatchRuleOps => calls[i].exc \in Benign)
                 => /\ calls[Len(calls)].op = "alarms.delete"
                    /\ calls[Len(calls)].kwargs["alarm_id"] = resource_id
              /\ raised = "none" => ~watch_rule.exists /\ ~alarm.exists

\* reached: the watch rule was already gone, the alarm was still deleted
Witness_C9 ==
    /\ variant = CeilometerAlarmClass
    /\ lastOp = "delete"
    /\ resource_id = AlarmId
    /\ Len(calls) = 2
    /\ calls[1].op = "WatchRule.load" /\ calls[1].exc = "WatchRuleNotFound"
    /\ calls[2].op = "alarms.delete" /\ calls[2].exc = "none"
    /\ raised = "none"
    /\ ~alarm.exists

\* C10: on a created resource whose alarm exists, the alarm's enabled flag is
\* the one asked for by the last effective create / update of enabled /
\* suspend / resume; after a suspend that returned it is false and after a
\* resume that returned it is true, whatever the declared enabled property.
Thm_C10_LastWriterWins ==
    (create_status = "complete" /\ alarm.exists) =>
        /\ alarm.enabled = last_enabled
        /\ (lastOp = "suspend" /\ raised = "none") => ~alarm.enabled
        /\ (lastOp = "resume" /\ raised = "none") => alarm.enabled

\* reached: declared enabled=false, resumed, and the alarm is enabled
Witness_C10 ==
    /\ create_status = "complete"
    /\ properties[ENABLED_KEY] = PyBool(FALSE)
    /\ lastOp = "resume"
    /\ raised = "none"
    /\ alarm.exists
    /\ alarm.enabled

====
